---- MODULE Spec2Model ----
(***************************************************************************)
(* MRP: a map / reduce / produce engine with a compiler (compiler.py), a   *)
(* content-addressed artifact store (artifacts/store.py), a local backend  *)
(* (runtime/local.py) and a remote-sandbox backend                         *)
(* (runtime/backends/cloud_sandbox.py).                                    *)
(*                                                                         *)
(* Python values are modelled as tagged records [t, v]:                    *)
(*   PyInt(n), PyStr(s)   scalars                                          *)
(*   Obj(pairs)       a dict: a sequence of <<key, value>> in insertion    *)
(*                    order, keys pairwise distinct                        *)
(*   Arr(items)       a list                                               *)
(*   None             Python's None                                        *)
(*   Hex(bytes)       a blake3 hexdigest, named by the bytes it hashes     *)
(*                    (blake3 is taken to be collision free)               *)
(***************************************************************************)
EXTENDS Integers, Sequences, FiniteSets, TLC

VARIABLES
    store,        \* .mrp/artifacts: digest -> [data: the blob's bytes,
                  \*   writes: how many times write_bytes ran on it]
    calls,        \* number of calls made (StoreSpec, ParseSpec)
    ret,          \* what the last call was given and returned: put_json or
                  \*   get_json (StoreSpec), _daytona_remote_run (ParseSpec)
    units,        \* .mrp/ops_pkg: code digest -> [data, writes] of the unit
    jobs,         \* the job descriptions handed to compile_job, in order
    plans,        \* what compile_job returned for each job compiled so far
    run,          \* the frame of the current run_ir / run_ir_cloud call
    runs,         \* what each finished run returned or raised
    cwd,          \* the working directory of the process
    outdirs,      \* the output directories that exist under .mrp/outputs
    clock,        \* the latest UTC second the process has read
    apiKey,       \* whether DAYTONA_API_KEY is set
    sandboxes     \* the remote sandboxes that exist

vars == <<store, calls, ret, units, jobs, plans, run, runs, cwd, outdirs, clock,
          apiKey, sandboxes>>

storeVars == <<calls, ret>>
engineVars == <<run, runs, cwd, outdirs, clock, apiKey, sandboxes>>

---------------------------------------------------------------------------
(* Bounds of the model *)

MaxCalls == 3
MaxVal == 1
MaxShards == 2
MaxWorkers == 2
MaxClock == 1
MaxLines == 3

---------------------------------------------------------------------------
(* Python values *)

PyInt(n) == [t |-> "int", v |-> n]
PyStr(s) == [t |-> "str", v |-> s]
Obj(pairs) == [t |-> "obj", v |-> pairs]
Arr(items) == [t |-> "arr", v |-> items]
None == [t |-> "null", v |-> 0]
Hex(bytes) == [t |-> "hex", v |-> bytes]
Bytes(tree) == [t |-> "bytes", v |-> tree]

\* dict keys of the model in byte order ("_" sorts before the lower-case letters)
KeyOrder ==
    <<"_shard_id", "a", "artifacts", "avg_gc", "b", "backend", "dsl_version",
      "gc", "job_id", "joined", "map", "map_shards", "maps", "operators",
      "output_dir", "produce", "reduce", "seq", "text">>

KeyRank(k) == CHOOSE i \in 1..Len(KeyOrder) : KeyOrder[i] = k

Keys(obj) == {obj.v[i][1] : i \in 1..Len(obj.v)}

\* obj[k]; the caller checks k \in Keys(obj)
Lookup(obj, k) == obj.v[CHOOSE i \in 1..Len(obj.v) : obj.v[i][1] = k][2]

\* obj.get(k, default)
Get(obj, k, default) == IF k \in Keys(obj) THEN Lookup(obj, k) ELSE default

RECURSIVE InsertByKey(_, _)
\* insert pair p into the key-sorted sequence of pairs
InsertByKey(sortedPairs, p) ==
    IF sortedPairs = <<>> THEN <<p>>
    ELSE IF KeyRank(p[1]) < KeyRank(Head(sortedPairs)[1])
         THEN <<p>> \o sortedPairs
         ELSE <<Head(sortedPairs)>> \o InsertByKey(Tail(sortedPairs), p)

RECURSIVE SortKeys(_)
\* the pairs in the order of their keys (the sorted rest is computed once)
SortKeys(pairs) ==
    IF pairs = <<>> THEN <<>>
    ELSE CHOOSE s \in {InsertByKey(rest, Head(pairs)) :
                        rest \in {SortKeys(Tail(pairs))}} : TRUE

RECURSIVE Canonical(_)
\* the value with the keys of every dict in it sorted: what OPT_SORT_KEYS emits
Canonical(x) ==
    IF x.t = "obj"
    THEN CHOOSE c \in {Obj([i \in 1..Len(sorted) |->
                                <<sorted[i][1], Canonical(sorted[i][2])>>]) :
                        sorted \in {SortKeys(x.v)}} : TRUE
    ELSE IF x.t = "arr"
    THEN Arr([i \in 1..Len(x.v) |-> Canonical(x.v[i])])
    ELSE x

\* a faulty encoder, for comparison: it loses the last key of a dict
dumpsDropsLast(obj) ==
    LET c == Canonical(obj)
    IN Bytes(IF c.t = "obj" /\ Len(c.v) > 1 THEN Obj(SubSeq(c.v, 1, Len(c.v) - 1)) ELSE c)

\* orjson.dumps(obj, option=orjson.OPT_SORT_KEYS)
dumps(obj) == Bytes(Canonical(obj))

\* orjson.loads(bytes): dicts come back with their keys in byte order
loads(bytes) == bytes.v

\* blake3(data).hexdigest()
blake3(data) == Hex(data)

RECURSIVE PyEq(_, _)
\* Python's ==: dicts are equal when they map the same keys to equal values,
\* whatever their insertion order
PyEq(x, y) ==
    /\ x.t = y.t
    /\ IF x.t = "obj"
       THEN /\ Keys(x) = Keys(y)
            /\ \A k \in Keys(x) : PyEq(Lookup(x, k), Lookup(y, k))
       ELSE IF x.t = "arr"
       THEN /\ Len(x.v) = Len(y.v)
            /\ \A i \in 1..Len(x.v) : PyEq(x.v[i], y.v[i])
       ELSE x.v = y.v

EmptyFn == [x \in {} |-> 0]

---------------------------------------------------------------------------
(* artifacts/store.py *)

digest_json(obj) == blake3(dumps(obj))

Exists(st, d) == d \in DOMAIN st

\* p.write_bytes(data): the blob at d holds data, and one more write is counted
WriteBytes(st, d, data) ==
    [x \in DOMAIN st \cup {d} |->
        IF x = d
        THEN [data |-> data, writes |-> IF Exists(st, d) THEN st[d].writes + 1 ELSE 1]
        ELSE st[x]]

\* a put_json without the exists() test, for comparison
PutStoreNoCheck(st, obj) == WriteBytes(st, digest_json(obj), dumps(obj))

\* the blob directory after put_json(obj): written only if no blob is there
PutStore(st, obj) ==
    LET d == digest_json(obj)
    IN IF ~Exists(st, d) THEN WriteBytes(st, d, dumps(obj)) ELSE st

\* no artifact-store call was made yet
NoCall == [op |-> "none", arg |-> None, ok |-> TRUE, val |-> None, found |-> FALSE]

\* def put_json(obj)
put_json(obj) ==
    /\ calls < MaxCalls
    /\ store' = PutStore(store, obj)
    /\ calls' = calls + 1
    /\ ret' = [op |-> "put", arg |-> obj, ok |-> TRUE, val |-> digest_json(obj),
               found |-> Exists(store, digest_json(obj))]
    /\ UNCHANGED <<units, jobs, plans, engineVars>>

\* def get_json(digest): read_bytes raises FileNotFoundError on a missing blob
get_json(digest) ==
    /\ calls < MaxCalls
    /\ calls' = calls + 1
    /\ ret' = IF Exists(store, digest)
              THEN [op |-> "get", arg |-> digest, ok |-> TRUE,
                    val |-> loads(store[digest].data), found |-> TRUE]
              ELSE [op |-> "get", arg |-> digest, ok |-> FALSE,
                    val |-> PyStr("FileNotFoundError"), found |-> FALSE]
    /\ UNCHANGED <<store, units, jobs, plans, engineVars>>

---------------------------------------------------------------------------
(* Operator references, dsl/schema.py                                      *)
(*                                                                         *)
(* A reference string "module:Class" is Ref(module, Class); the module of  *)
(* a materialized operator, "ops_pkg.gen_<digest>", is GenMod(digest).     *)

Ref(mod, cls) == [t |-> "ref", v |-> [mod |-> mod, cls |-> cls]]
GenMod(digest) == [t |-> "gen", v |-> digest]

\* class GeneratedOperator
GeneratedOperator(code, entrypoint) == [code |-> code, entrypoint |-> entrypoint]

\* class MapSpec, ReduceSpec, ProduceSpec (config is left at its default, {})
MapSpec(operator, generated, shards) ==
    [operator |-> operator, generated |-> generated, shards |-> shards]
StageSpec(operator, generated) ==
    [operator |-> operator, generated |-> generated, config |-> Obj(<<>>)]

\* class JobSpec
JobSpec(job_id, map, reduce, produce) ==
    [version |-> PyStr("v0"), job_id |-> PyStr(job_id),
     map |-> map, reduce |-> reduce, produce |-> produce]

\* def normalize_json(data)
normalize_json(data) == dumps(data)

---------------------------------------------------------------------------
(* compiler.py *)

\* a seed that also hashes the inline operators, for comparison
derive_seed_generated(job) ==
    blake3(normalize_json(Obj(<<
        <<"dsl_version", job.version>>,
        <<"job_id", job.job_id>>,
        <<"map_shards", Arr(job.map.shards)>>,
        <<"operators", Obj(<<
            <<"map", IF job.map.generated = None THEN job.map.operator
                     ELSE PyStr(job.map.generated.code)>>,
            <<"reduce", IF job.reduce.generated = None THEN job.reduce.operator
                        ELSE PyStr(job.reduce.generated.code)>>,
            <<"produce", IF job.produce.generated = None THEN job.produce.operator
                         ELSE PyStr(job.produce.generated.code)>> >>)>> >>)))

\* def derive_seed(job)
derive_seed(job) ==
    blake3(normalize_json(Obj(<<
        <<"dsl_version", job.version>>,
        <<"job_id", job.job_id>>,
        <<"map_shards", Arr(job.map.shards)>>,
        <<"operators", Obj(<<
            <<"map", job.map.operator>>,
            <<"reduce", job.reduce.operator>>,
            <<"produce", job.produce.operator>> >>)>> >>)))

\* Strings of the model, for the byte order of their digests
StrOrder == <<"a", "b", "c", "d", "GG", "AT", "GA", "CT">>
StrCode(str) == CHOOSE i \in 1..Len(StrOrder) : StrOrder[i] = str

RECURSIVE ByteNum(_, _)
\* the canonical bytes of a flat dict read as one number
ByteNum(pairs, acc) ==
    IF pairs = <<>> THEN acc
    ELSE LET p == Head(pairs)
             code == IF p[2].t = "int" THEN p[2].v + 1 ELSE StrCode(p[2].v)
         IN ByteNum(Tail(pairs), acc * 512 + KeyRank(p[1]) * 16 + code)

\* The hexdigest of a shard as a number, for Python's str comparison of two
\* hexdigests: an injective scramble of the hashed bytes, so that the order of
\* the digests is unrelated to the order of the contents.
HexVal(hex) == (ByteNum(hex.v.v.v, 1) * 1021 + 77) % 1048576

RECURSIVE InsertStable(_, _)
\* insert <<key, item>> after every entry whose key is not greater
InsertStable(sortedPairs, p) ==
    IF sortedPairs = <<>> THEN <<p>>
    ELSE IF p[1] < Head(sortedPairs)[1]
         THEN <<p>> \o sortedPairs
         ELSE <<Head(sortedPairs)>> \o InsertStable(Tail(sortedPairs), p)

RECURSIVE SortStable(_)
\* (the sorted rest is computed once)
SortStable(pairs) ==
    IF pairs = <<>> THEN <<>>
    ELSE CHOOSE s \in {InsertStable(rest, pairs[Len(pairs)]) :
                        rest \in {SortStable(SubSeq(pairs, 1, Len(pairs) - 1))}} : TRUE

\* a sort in descending order, for comparison
sorted_descending(items, keys) ==
    CHOOSE r \in {[i \in 1..Len(s) |-> s[Len(s) + 1 - i][2]] :
                    s \in {SortStable([i \in 1..Len(items) |-> <<keys[i], items[i]>>])}} : TRUE

\* sorted(items, key=...) with keys[i] the key of items[i]: Python's sort is stable
sorted(items, keys) ==
    CHOOSE r \in {[i \in 1..Len(s) |-> s[i][2]] :
                    s \in {SortStable([i \in 1..Len(items) |-> <<keys[i], items[i]>>])}} : TRUE

\* the shards left in the caller's order, for comparison
shards_unsorted(shards) == shards

\* shards_sorted = sorted(job.map.shards, key=lambda s: blake3(normalize_json(s)).hexdigest())
shards_sorted(shards) ==
    sorted(shards, [i \in 1..Len(shards) |-> HexVal(blake3(normalize_json(shards[i])))])

\* if generated and generated.get("code") and generated.get("entrypoint")
HasGenerated(generated) ==
    generated # None /\ generated.code # "" /\ generated.entrypoint # None

\* code_digest = blake3(generated["code"].encode("utf-8")).hexdigest()
code_digest(generated) == blake3(Bytes(PyStr(generated.code)))

\* a materialization without the exists() test, for comparison
MaterializeUnitsNoCheck(u, generated) ==
    WriteBytes(u, code_digest(generated), Bytes(PyStr(generated.code)))

\* if not module_path.exists(): module_path.write_bytes(code_bytes)
MaterializeUnits(u, generated) ==
    IF ~Exists(u, code_digest(generated))
    THEN WriteBytes(u, code_digest(generated), Bytes(PyStr(generated.code)))
    ELSE u

\* resolved = f"ops_pkg.{module_name}:{ep_class}", ep_class = ep.split(":")[-1]
resolved(generated) ==
    Ref(GenMod(code_digest(generated)), generated.entrypoint.v.cls)

\* def materialize_generated(kind, generated, fallback_operator), on the units u:
\* what it returns (ok = FALSE: the assert failed), the units after it, and
\* whether it set materialized[kind]
materialize_generated(u, generated, fallback_operator) ==
    IF HasGenerated(generated)
    THEN [ok |-> TRUE, ref |-> resolved(generated),
          units |-> MaterializeUnits(u, generated), mat |-> TRUE]
    ELSE [ok |-> fallback_operator # None, ref |-> fallback_operator,
          units |-> u, mat |-> FALSE]

\* class MapTask, ReduceTask, ProduceTask, IR
MapTask(operator, shard_id, params) ==
    [operator |-> operator, shard_id |-> shard_id, params |-> params]
StageTask(operator, config) == [operator |-> operator, config |-> config]
IR(maps, reduce, produce, manifest) ==
    [maps |-> maps, reduce |-> reduce, produce |-> produce, manifest |-> manifest]

RECURSIVE CompileMaps(_, _, _, _)
\* the list comprehension of compile_job: one materialize_generated call and
\* one MapTask per shard, shard_id = the 0-based position in shards_sorted
CompileMaps(u, job, shards, done) ==
    IF shards = <<>> THEN [ok |-> TRUE, maps |-> done, units |-> u]
    ELSE LET m == materialize_generated(u, job.map.generated, job.map.operator)
         IN IF ~m.ok THEN [ok |-> FALSE, maps |-> done, units |-> m.units]
            ELSE CompileMaps(m.units, job, Tail(shards),
                             Append(done, MapTask(m.ref, Len(done), Head(shards))))

AssertionError(kind) == [ok |-> FALSE, err |-> "AssertionError", kind |-> kind]

\* def compile_job(job), on the units u: [ret, units]
compile_job(job, u) ==
    LET ms == CompileMaps(u, job, shards_sorted(job.map.shards), <<>>)
        r == materialize_generated(ms.units, job.reduce.generated, job.reduce.operator)
        p == materialize_generated(r.units, job.produce.generated, job.produce.operator)
        mapMat == HasGenerated(job.map.generated) /\ job.map.shards # <<>>
        manifest ==
            [job_id |-> job.job_id,
             seed |-> derive_seed(job),
             operators |->
                [map |-> IF mapMat THEN resolved(job.map.generated) ELSE job.map.operator,
                 reduce |-> IF r.mat THEN r.ref ELSE job.reduce.operator,
                 produce |-> IF p.mat THEN p.ref ELSE job.produce.operator]]
        policy_report ==
            [egress_allowed |-> FALSE,
             caps |-> [workers |-> None, time_s |-> None, mem_mb |-> None],
             status |-> "ok"]
    IN IF ~ms.ok THEN [ret |-> AssertionError("map"), units |-> ms.units]
       ELSE IF ~r.ok THEN [ret |-> AssertionError("reduce"), units |-> r.units]
       ELSE IF ~p.ok THEN [ret |-> AssertionError("produce"), units |-> p.units]
       ELSE [ret |-> [ok |-> TRUE,
                      ir |-> IR(ms.maps, StageTask(r.ref, job.reduce.config),
                                StageTask(p.ref, job.produce.config), manifest),
                      manifest |-> manifest,
                      policy |-> policy_report],
             units |-> p.units]

---------------------------------------------------------------------------
(* The operators of the repository: examples/toy.py, examples/genomics.py  *)
(* and the generated units of .mrp/ops_pkg                                 *)

Exc(name) == [t |-> "exc", v |-> name]
IsExc(x) == x.t = "exc"

\* the classes each module source defines
ClassesOf(source) ==
    IF source \in {"examples.toy", "toy", "src_toy"}
        THEN {"UppercaseAgent", "ConcatReducer", "JsonProducer"}
    ELSE IF source = "examples.genomics" THEN {"GenomicsReducer", "GenomicsReportProducer"}
    ELSE IF source = "src_gc" THEN {"GCContentAgent"}
    ELSE IF source = "src_avg" THEN {"AvgReducer"}
    ELSE {}

\* str(...).upper()
upper(str) == (("a" :> "A") @@ ("b" :> "B") @@ ("c" :> "C") @@ ("d" :> "D"))[str]

\* (g + c) / max(len(seq), 1), in percent
gc_content(seq) == (("GG" :> 100) @@ ("AT" :> 0) @@ ("GA" :> 50) @@ ("CT" :> 50) @@ ("" :> 0))[seq]

\* Agent().run(params, seed): the result or the exception raised
AgentRun(cls, params, seed) ==
    IF cls = "UppercaseAgent"
    THEN IF {"_shard_id", "text"} \subseteq Keys(params)
         THEN Obj(<< <<"_shard_id", Lookup(params, "_shard_id")>>,
                     <<"text", PyStr(upper(Lookup(params, "text").v))>> >>)
         ELSE Exc("KeyError")
    ELSE IF cls = "GCContentAgent"
    THEN Obj(<< <<"_shard_id", Get(params, "_shard_id", PyInt(0))>>,
                <<"gc", PyInt(gc_content(Get(params, "seq", PyStr("")).v))>> >>)
    ELSE Exc("TypeError")

RECURSIVE SumGc(_)
SumGc(inputs) ==
    IF inputs = <<>> THEN 0
    ELSE Get(Head(inputs), "gc", PyInt(0)).v + SumGc(Tail(inputs))

\* Reducer().run(inputs, seed)
ReducerRun(cls, inputs, seed) ==
    IF cls = "ConcatReducer"
    THEN IF \A i \in 1..Len(inputs) : "text" \in Keys(inputs[i])
         THEN Obj(<< <<"joined",
                       [t |-> "join", v |-> [i \in 1..Len(inputs) |-> Lookup(inputs[i], "text").v]]>> >>)
         ELSE Exc("KeyError")
    ELSE IF cls = "AvgReducer"
    THEN Obj(<< <<"avg_gc",
                  PyInt(SumGc(inputs) \div (IF Len(inputs) > 1 THEN Len(inputs) ELSE 1))>> >>)
    ELSE Exc("TypeError")

\* Producer().run(result, seed): the outcomes it may have. The genomics
\* producer writes its report files into the working directory, which may fail.
ProducerRun(cls, result, seed) ==
    IF cls = "JsonProducer" THEN {result}
    ELSE IF cls = "GenomicsReportProducer"
    THEN {Obj(result.v \o << <<"artifacts", PyStr("genomics_bins.csv")>> >>), Exc("OSError")}
    ELSE {Exc("TypeError")}

---------------------------------------------------------------------------
(* runtime/local.py *)

\* def _load(path), with the units u importable from .mrp: the class, or the
\* exception the import raises
_load(path, u) ==
    IF path = None THEN Exc("TypeError")
    ELSE LET mod == path.v.mod
             source == IF mod.t = "gen"
                       THEN IF Exists(u, mod.v) THEN u[mod.v].data.v.v ELSE ""
                       ELSE mod.v
         IN IF ClassesOf(source) = {} THEN Exc("ModuleNotFoundError")
            ELSE IF path.v.cls \notin ClassesOf(source) THEN Exc("AttributeError")
            ELSE [t |-> "class", v |-> path.v.cls]

\* key=lambda r: r.get("_shard_id", 0)
SortKey(r) == Get(r, "_shard_id", PyInt(0)).v

\* results_sorted = sorted(results, key=lambda r: r.get("_shard_id", 0))
results_sorted(results) == sorted(results, [i \in 1..Len(results) |-> SortKey(results[i])])

---------------------------------------------------------------------------
(* The engine: one run_ir (local) or run_ir_cloud (remote sandbox) call at  *)
(* a time, on the plan compile_job returned last                           *)

Path(parts) == [t |-> "path", v |-> parts]
ProjectRoot == Path(<<>>)

\* the frame of a run before it starts
IdleFrame ==
    [pc |-> "idle", plan |-> 0, backend |-> "none", workers |-> 0,
     task |-> <<>>, collected |-> {}, results |-> <<>>, next |-> 0,
     sorted |-> <<>>, reduce_out |-> None, output_dir |-> None, cwd |-> None,
     err |-> None, stage |-> "none",
     mapCalls |-> <<>>, reduceCalls |-> 0, produceCalls |-> 0, reduceAfter |-> {},
     produceArg |-> None, seedArgs |-> {}, store0 |-> EmptyFn]

\* the plan the engine is given: the one compiled last
CurPlan == plans[Len(plans)]
CurIR == CurPlan.ir
Manifest == CurIR.manifest
NumTasks == Len(CurIR.maps)

\* a seed computed anew from the sorted shards, for comparison
SeedFromSorted(frame) ==
    derive_seed([jobs[frame.plan] EXCEPT !.map.shards = shards_sorted(@)])

\* seed = ir.manifest["seed"]
Seed(frame) == plans[frame.plan].ir.manifest.seed

\* the seed a stage was called with (task: the MapTask, 0 for reduce, produce)
SeedArg(stage, task, value) == [stage |-> stage, task |-> task, seed |-> value]

\* seed = {seed!r} in the script of the sandbox: the literal repr(seed) (a
\* hexdigest has nothing to escape), and the string the script gets from it
repr(str) == [t |-> "literal", quoted |-> str.v]
literal_value(lit) == Hex(lit.quoted)

Terminal(pc) == pc \in {"idle", "returned", "raised"}

\* no call is running and the last plan has had its run (or failed to compile)
SessionOver ==
    /\ Terminal(run.pc)
    /\ Len(plans) > 0 => (~CurPlan.ok \/ run.plan = Len(plans))

\* a plan was compiled and has not been run
PlanReady ==
    /\ Terminal(run.pc)
    /\ Len(plans) > 0 /\ CurPlan.ok /\ run.plan # Len(plans)

\* the exception e leaves the call, raised by stage
Raise(frame, e, stage) ==
    /\ run' = [frame EXCEPT !.pc = "raised", !.err = e, !.stage = stage]
    /\ runs' = Append(runs, [plan |-> frame.plan, ok |-> FALSE, err |-> e, stage |-> stage])

\* the first exception among the loads, or None
FirstExc(loaded) ==
    IF \E i \in 1..Len(loaded) : IsExc(loaded[i])
    THEN loaded[CHOOSE i \in 1..Len(loaded) :
                    IsExc(loaded[i]) /\ \A j \in 1..(i - 1) : ~IsExc(loaded[j])]
    ELSE None

\* run_ir, lines 20-34: load the three operators, make the agent, submit one
\* task per MapTask to a pool of w workers
RunStartLocal(w) ==
    /\ PlanReady
    /\ LET frame == [IdleFrame EXCEPT !.plan = Len(plans), !.backend = "local",
                        !.workers = w, !.store0 = store,
                        !.task = [i \in 1..NumTasks |-> [st |-> "queued", out |-> None]],
                        !.mapCalls = [i \in 1..NumTasks |-> 0]]
           e == FirstExc(<<_load(Manifest.operators.map, units),
                           _load(Manifest.operators.reduce, units),
                           _load(Manifest.operators.produce, units)>>)
       IN IF e # None THEN Raise(frame, e, "load")
          ELSE run' = [frame EXCEPT !.pc = "maps"] /\ UNCHANGED runs
    /\ UNCHANGED <<store, storeVars, units, jobs, plans, cwd, outdirs, clock, apiKey, sandboxes>>

\* agent = Agent(): the one instance made for the run, whose bound method
\* agent.run every task is submitted with
agent(frame) == [obj |-> "Agent()", plan |-> frame.plan]

\* the mutable objects the call of task i can write to: self, which is the
\* agent of the run, and t.params, the dict of its own MapTask
Writable(frame, i) == {agent(frame), [obj |-> "params", plan |-> frame.plan, task |-> i]}

\* workers that never come back for another task, for comparison
WorkersNeverFreed == {i \in 1..Len(run.task) : run.task[i].st # "queued"}

\* the tasks a worker thread is running
Running == {i \in 1..Len(run.task) : run.task[i].st = "running"}

\* a worker takes the oldest queued task and calls agent.run(t.params, seed)
TaskStart(i) ==
    /\ run.pc \in {"maps", "map_failed"}
    /\ i \in 1..Len(run.task)
    /\ run.task[i].st = "queued"
    /\ \A j \in 1..(i - 1) : run.task[j].st # "queued"
    /\ Cardinality(Running) < run.workers
    /\ run' = [run EXCEPT !.task[i].st = "running", !.mapCalls[i] = @ + 1,
                          !.seedArgs = @ \cup {SeedArg("map", i, Seed(run))}]
    /\ UNCHANGED <<store, storeVars, units, jobs, plans, runs, cwd, outdirs, clock,
                   apiKey, sandboxes>>

\* agent.run returns or raises: the future is done
TaskFinish(i) ==
    /\ run.pc \in {"maps", "map_failed"}
    /\ i \in 1..Len(run.task)
    /\ run.task[i].st = "running"
    /\ run' = [run EXCEPT !.task[i] =
                [st |-> "done",
                 out |-> AgentRun(_load(Manifest.operators.map, units).v,
                                  CurIR.maps[i].params, Seed(run))]]
    /\ UNCHANGED <<store, storeVars, units, jobs, plans, runs, cwd, outdirs, clock,
                   apiKey, sandboxes>>

\* a result() that hands an exception over as a value, for comparison
FutNeverRaises(out) == FALSE

\* fut.result() raises the exception of the task
FutRaises(out) == IsExc(out)

\* for fut in as_completed(futs): results.append(fut.result()). A future that
\* is done is yielded; those done before as_completed is entered come in the
\* order of a set, so any done future may be next.
Collect(i) ==
    /\ run.pc = "maps"
    /\ i \in 1..Len(run.task)
    /\ run.task[i].st = "done"
    /\ i \notin run.collected
    /\ IF FutRaises(run.task[i].out)
       THEN run' = [run EXCEPT !.pc = "map_failed", !.err = run.task[i].out, !.stage = "map"]
       ELSE run' = [run EXCEPT !.collected = @ \cup {i},
                               !.results = Append(@, run.task[i].out)]
    /\ UNCHANGED <<store, storeVars, units, jobs, plans, runs, cwd, outdirs, clock,
                   apiKey, sandboxes>>

\* the with block is left by an exception: shutdown(wait=True) returns once
\* every submitted task has run, then the exception reaches the caller
PoolExitRaising ==
    /\ run.pc = "map_failed"
    /\ \A i \in 1..Len(run.task) : run.task[i].st = "done"
    /\ Raise(run, run.err, "map")
    /\ UNCHANGED <<store, storeVars, units, jobs, plans, cwd, outdirs, clock, apiKey, sandboxes>>

\* a loop that ends with the first result, for comparison
BarrierOpenEarly(frame) ==
    IF frame.backend = "local" THEN frame.collected # {} \/ Len(frame.task) = 0
    ELSE frame.next >= 1

\* the for loop over as_completed ends, or the loop over ir.maps of the cloud
\* backend: every task has given its result
BarrierOpen(frame) ==
    IF frame.backend = "local" THEN frame.collected = 1..Len(frame.task)
    ELSE frame.next = NumTasks

\* the tasks that have finished
Finished(frame) ==
    IF frame.backend = "local"
    THEN {i \in 1..Len(frame.task) : frame.task[i].st = "done"}
    ELSE 1..frame.next

\* lines 38-39 (cloud: 96-99): sort the results, load the reducer (cloud),
\* run the reducer once
Reduce ==
    /\ run.pc \in {"maps", "cloud_maps"}
    /\ BarrierOpen(run)
    /\ \E rs \in {results_sorted(run.results)} :
          LET Reducer == _load(Manifest.operators.reduce, units)
              frame == [run EXCEPT !.sorted = rs]
              called == [frame EXCEPT !.reduceCalls = @ + 1, !.reduceAfter = Finished(run),
                                      !.seedArgs = @ \cup {SeedArg("reduce", 0, Seed(run))}]
          IN IF IsExc(Reducer) THEN Raise(frame, Reducer, "load")
             ELSE \E out \in {ReducerRun(Reducer.v, rs, Seed(run))} :
                     IF IsExc(out) THEN Raise(called, out, "reduce")
                     ELSE run' = [called EXCEPT !.pc = "reduced", !.reduce_out = out]
                          /\ UNCHANGED runs
    /\ UNCHANGED <<store, storeVars, units, jobs, plans, cwd, outdirs, clock, apiKey, sandboxes>>

\* lines 40-45 (cloud: 100-107): load the producer (cloud), make the output
\* directory named by job_id and the UTC second now, chdir into it, call the
\* producer
ProduceStart(now) ==
    /\ run.pc = "reduced"
    /\ now >= clock
    /\ LET Producer == _load(Manifest.operators.produce, units)
           dir == Path(<<".mrp", "outputs", Manifest.job_id.v, now>>)
       IN IF IsExc(Producer)
          THEN Raise(run, Producer, "load") /\ UNCHANGED <<cwd, outdirs, clock>>
          ELSE /\ run' = [run EXCEPT !.pc = "producing", !.output_dir = dir, !.cwd = cwd,
                                     !.produceCalls = @ + 1, !.produceArg = run.reduce_out,
                                     !.seedArgs = @ \cup {SeedArg("produce", 0, Seed(run))}]
               /\ outdirs' = outdirs \cup {dir}
               /\ cwd' = dir
               /\ clock' = now
               /\ UNCHANGED runs
    /\ UNCHANGED <<store, storeVars, units, jobs, plans, apiKey, sandboxes>>

\* run_record = {"backend": ..., "output_dir": ..., "maps": ..., ...}
run_record(frame, produce_out) ==
    Obj(<< <<"backend", PyStr(frame.backend)>>,
           <<"output_dir", frame.output_dir>>,
           <<"maps", Arr(frame.sorted)>>,
           <<"reduce", frame.reduce_out>>,
           <<"produce", produce_out>> >>)

\* a produce step without the finally clause, for comparison: the working
\* directory is restored only when the producer returns
ProduceEndNoFinally ==
    /\ run.pc = "producing"
    /\ \E out \in ProducerRun(_load(Manifest.operators.produce, units).v,
                              run.produceArg, Seed(run)) :
          IF IsExc(out)
          THEN Raise(run, out, "produce") /\ UNCHANGED <<store, cwd>>
          ELSE LET record == run_record(run, out)
               IN /\ store' = PutStore(store, record)
                  /\ run' = [run EXCEPT !.pc = "returned"]
                  /\ runs' = Append(runs, [plan |-> run.plan, ok |-> TRUE,
                                           run_digest |-> digest_json(record),
                                           record |-> record])
                  /\ cwd' = run.cwd
    /\ UNCHANGED <<storeVars, units, jobs, plans, outdirs, clock, apiKey, sandboxes>>

\* lines 45-51 (cloud: 107-119): the producer returns or raises, the working
\* directory is restored; the run record is stored and returned
ProduceEnd ==
    /\ run.pc = "producing"
    /\ \E out \in ProducerRun(_load(Manifest.operators.produce, units).v,
                              run.produceArg, Seed(run)) :
          IF IsExc(out)
          THEN Raise(run, out, "produce") /\ UNCHANGED store
          ELSE LET record == run_record(run, out)
               IN /\ store' = PutStore(store, record)
                  /\ run' = [run EXCEPT !.pc = "returned"]
                  /\ runs' = Append(runs, [plan |-> run.plan, ok |-> TRUE,
                                           run_digest |-> digest_json(record),
                                           record |-> record])
    /\ cwd' = run.cwd
    /\ UNCHANGED <<storeVars, units, jobs, plans, outdirs, clock, apiKey, sandboxes>>

---------------------------------------------------------------------------
(* runtime/backends/cloud_sandbox.py *)

\* json.dumps(x), one line of text; any other line of output
Json(x) == [t |-> "json", v |-> x]
Text(str) == [t |-> "text", v |-> str]

\* def _resolve_module_source(mod_name), with the units u on disk
_resolve_module_source(mod, u) ==
    IF mod.t = "gen"
    THEN IF Exists(u, mod.v) THEN u[mod.v].data.v ELSE Exc("FileNotFoundError")
    ELSE IF ClassesOf(mod.v) # {} THEN PyStr(mod.v) ELSE Exc("RuntimeError")

\* what the sandbox may answer to the script of _daytona_remote_run: the
\* script prints json.dumps(out) after whatever the operator prints, and exits
\* nonzero when it raises; the sandbox itself may fail, or lose the output
RemoteResponses(source, cls, payload, seed) ==
    LET out == IF cls \in ClassesOf(source)
               THEN AgentRun(cls, Json(payload).v, seed)
               ELSE Exc("NameError")
        prints == IF cls = "UppercaseAgent"
                  THEN <<Text("UppercaseAgent running with params: ...")>>
                  ELSE <<>>
    IN IF IsExc(out)
       THEN {[exit_code |-> 1, lines |-> prints \o <<Text("Traceback ...")>>]}
       ELSE {[exit_code |-> 0, lines |-> prints \o <<Json(out)>>],
             [exit_code |-> 1, lines |-> prints \o <<Json(out)>>],
             [exit_code |-> 0, lines |-> prints \o <<Text("")>>]}

RECURSIVE FirstJsonLine(_)
\* a scan from the first line on, for comparison
FirstJsonLine(lines) ==
    IF lines = <<>> THEN Exc("RuntimeError")
    ELSE IF Head(lines).t = "json" THEN Head(lines).v
    ELSE FirstJsonLine(Tail(lines))

RECURSIVE LastJsonLine(_)
\* for line in reversed(text.splitlines()): skip the blank lines and those
\* json.loads rejects, return the first that parses
LastJsonLine(lines) ==
    IF lines = <<>> THEN Exc("RuntimeError")
    ELSE LET line == lines[Len(lines)]
         IN IF line.t = "json" THEN line.v
            ELSE LastJsonLine(SubSeq(lines, 1, Len(lines) - 1))

\* lines 58-70 of _daytona_remote_run: the result, or the exception raised
RemoteResult(resp) ==
    IF resp.exit_code # 0 THEN Exc("RuntimeError") ELSE LastJsonLine(resp.lines)

\* a run_ir_cloud that does not look at the credential, for comparison
RunStartCloudNoCheck ==
    /\ PlanReady
    /\ run' = [IdleFrame EXCEPT !.plan = Len(plans), !.backend = "cloud_sandbox",
                                !.store0 = store, !.mapCalls = [i \in 1..NumTasks |-> 0],
                                !.pc = "cloud_maps"]
    /\ UNCHANGED <<store, storeVars, units, jobs, plans, runs, cwd, outdirs, clock, apiKey,
                   sandboxes>>

\* run_ir_cloud, lines 77-91: check the credential, build the client
RunStartCloud ==
    /\ PlanReady
    /\ LET frame == [IdleFrame EXCEPT !.plan = Len(plans), !.backend = "cloud_sandbox",
                        !.store0 = store, !.mapCalls = [i \in 1..NumTasks |-> 0]]
       IN IF ~apiKey THEN Raise(frame, Exc("RuntimeError"), "config")
          ELSE run' = [frame EXCEPT !.pc = "cloud_maps"] /\ UNCHANGED runs
    /\ UNCHANGED <<store, storeVars, units, jobs, plans, cwd, outdirs, clock, apiKey, sandboxes>>

\* the sandbox of the task being dispatched
SandboxId == [plan |-> run.plan, task |-> run.next + 1]

\* _daytona_remote_run, lines 41-55, for the next MapTask: split the
\* entrypoint, read the module source, create the sandbox
CloudDispatch ==
    /\ run.pc = "cloud_maps"
    /\ run.next < NumTasks
    /\ LET entry == Manifest.operators.map
           source == IF entry = None THEN Exc("AttributeError")
                     ELSE _resolve_module_source(entry.v.mod, units)
       IN IF IsExc(source)
          THEN Raise(run, source, "map") /\ UNCHANGED sandboxes
          ELSE /\ run' = [run EXCEPT !.pc = "sandboxed", !.mapCalls[run.next + 1] = @ + 1,
                                     !.seedArgs = @ \cup
                                        {SeedArg("map", run.next + 1,
                                                 literal_value(repr(Seed(run))))}]
               /\ sandboxes' = sandboxes \cup {SandboxId}
               /\ UNCHANGED runs
    /\ UNCHANGED <<store, storeVars, units, jobs, plans, cwd, outdirs, clock, apiKey>>

\* a _daytona_remote_run without the finally clause, for comparison: the
\* sandbox is deleted only when a result is returned
CloudReturnNoFinally ==
    /\ run.pc = "sandboxed"
    /\ LET entry == Manifest.operators.map
           source == _resolve_module_source(entry.v.mod, units)
       IN \E resp \in RemoteResponses(source.v, entry.v.cls,
                                      CurIR.maps[run.next + 1].params,
                                      literal_value(repr(Seed(run)))) :
            LET out == RemoteResult(resp)
            IN IF FutRaises(out)
               THEN Raise(run, out, "map") /\ UNCHANGED sandboxes
               ELSE /\ run' = [run EXCEPT !.pc = "cloud_maps", !.next = @ + 1,
                                          !.results = Append(@, out)]
                    /\ sandboxes' = sandboxes \ {SandboxId}
                    /\ UNCHANGED runs
    /\ UNCHANGED <<store, storeVars, units, jobs, plans, cwd, outdirs, clock, apiKey>>

\* _daytona_remote_run, lines 56-57 and 71-73: sandbox.process.code_run itself
\* raises (the sandbox or the connection fails); the sandbox is deleted and
\* the exception leaves run_ir_cloud
CloudRunRaises ==
    /\ run.pc = "sandboxed"
    /\ Raise(run, Exc("DaytonaError"), "map")
    /\ sandboxes' = sandboxes \ {SandboxId}
    /\ UNCHANGED <<store, storeVars, units, jobs, plans, cwd, outdirs, clock, apiKey>>

\* _daytona_remote_run, lines 57-73, and map_results.append(out): the sandbox
\* answers, the result is parsed, the sandbox is deleted
CloudReturn ==
    /\ run.pc = "sandboxed"
    /\ LET entry == Manifest.operators.map
           source == _resolve_module_source(entry.v.mod, units)
       IN \E resp \in RemoteResponses(source.v, entry.v.cls,
                                      CurIR.maps[run.next + 1].params,
                                      literal_value(repr(Seed(run)))) :
            LET out == RemoteResult(resp)
            IN IF FutRaises(out)
               THEN Raise(run, out, "map")
               ELSE /\ run' = [run EXCEPT !.pc = "cloud_maps", !.next = @ + 1,
                                          !.results = Append(@, out)]
                    /\ UNCHANGED runs
    /\ sandboxes' = sandboxes \ {SandboxId}
    /\ UNCHANGED <<store, storeVars, units, jobs, plans, cwd, outdirs, clock, apiKey>>

---------------------------------------------------------------------------
(* Job descriptions *)

Texts == {"a", "b"}
Seqs == {"GG", "AT"}
UserShardIds == {0, 1}

\* shards of the toy job: {"text": ...}, with or without a "_shard_id" of the user's
ToyShards ==
    {Obj(<< <<"text", PyStr(x)>> >>) : x \in Texts}
    \cup {Obj(<< <<"_shard_id", PyInt(k)>>, <<"text", PyStr(x)>> >>) : k \in UserShardIds, x \in Texts}

\* shards of the GC-content job: {"seq": ...}
GcShards ==
    {Obj(<< <<"seq", PyStr(x)>> >>) : x \in Seqs}
    \cup {Obj(<< <<"seq", PyStr(x)>>, <<"_shard_id", PyInt(k)>> >>) : k \in UserShardIds, x \in Seqs}

ShardLists(docs) == UNION {[1..n -> docs] : n \in 0..MaxShards}

Reorderings(seq) ==
    {[i \in 1..Len(seq) |-> seq[f[i]]] :
        f \in {g \in [1..Len(seq) -> 1..Len(seq)] : \A i, j \in 1..Len(seq) : g[i] = g[j] => i = j}}

\* examples/toy.py as declared operators, and the same source given inline
ToyAgent == Ref(PyStr("examples.toy"), "UppercaseAgent")
ToyReducer == Ref(PyStr("examples.toy"), "ConcatReducer")
ToyProducer == Ref(PyStr("examples.toy"), "JsonProducer")
GenomicsProducer == Ref(PyStr("examples.genomics"), "GenomicsReportProducer")
InlineToy(cls) == GeneratedOperator("src_toy", Ref(PyStr("toy"), cls))
\* the generated operators of .mrp/ops_pkg
InlineGc == GeneratedOperator("src_gc", Ref(PyStr("ops.gc"), "GCContentAgent"))
InlineAvg == GeneratedOperator("src_avg", Ref(PyStr("ops.avg"), "AvgReducer"))

MapStages ==
    {[operator |-> ToyAgent, generated |-> None],
     [operator |-> None, generated |-> InlineToy("UppercaseAgent")],
     [operator |-> None, generated |-> InlineGc],
     [operator |-> None, generated |-> None]}

ReduceStages ==
    {StageSpec(ToyReducer, None), StageSpec(None, InlineToy("ConcatReducer")),
     StageSpec(None, InlineAvg), StageSpec(None, None)}

ProduceStages ==
    {StageSpec(ToyProducer, None), StageSpec(None, InlineToy("JsonProducer")),
     StageSpec(GenomicsProducer, None), StageSpec(None, None)}

CompileJobs ==
    {JobSpec("job", MapSpec(m.operator, m.generated, sh), r, p) :
        m \in MapStages, sh \in ShardLists(ToyShards), r \in ReduceStages, p \in ProduceStages}

---------------------------------------------------------------------------
(* Structured documents handed to the artifact store *)

Vals == {PyInt(n) : n \in 0..MaxVal}

Docs ==
    {Obj(<<>>)}
    \cup {Obj(<< <<k, x>> >>) : k \in {"a", "b"}, x \in Vals}
    \cup {Obj(<< <<"a", x>>, <<"b", y>> >>) : x \in Vals, y \in Vals}
    \cup {Obj(<< <<"b", y>>, <<"a", x>> >>) : x \in Vals, y \in Vals}
    \cup {Obj(<< <<"b", Arr(<<x>>)>>, <<"a", Obj(<< <<"b", x>>, <<"a", x>> >>)>> >>) : x \in Vals}

\* nothing was stored, materialized, compiled or run
Fresh ==
    /\ store = EmptyFn
    /\ calls = 0
    /\ ret = NoCall
    /\ units = EmptyFn
    /\ plans = <<>>
    /\ run = IdleFrame
    /\ runs = <<>>
    /\ cwd = ProjectRoot
    /\ outdirs = {}
    /\ clock = 0
    /\ sandboxes = {}

StoreInit ==
    /\ Fresh
    /\ jobs = <<>>
    /\ apiKey = FALSE

StoreNext ==
    \/ \E x \in Docs : put_json(x)
    \/ \E x \in Docs : get_json(digest_json(x))

StoreSpec == StoreInit /\ [][StoreNext]_vars

---------------------------------------------------------------------------
(* Compiling: a job, then the same job with its shard list permuted *)

CompileNext ==
    /\ Len(plans) < Len(jobs)
    /\ LET c == compile_job(jobs[Len(plans) + 1], units)
       IN /\ plans' = Append(plans, c.ret)
          /\ units' = c.units
    /\ UNCHANGED <<store, storeVars, jobs, engineVars>>

CompileInit ==
    /\ Fresh
    /\ apiKey = FALSE
    /\ \E j \in CompileJobs : \E sh \in Reorderings(j.map.shards) :
          jobs = <<j, [j EXCEPT !.map.shards = sh]>>

CompileSpec == CompileInit /\ [][CompileNext]_vars

---------------------------------------------------------------------------
(* Sandbox responses: _daytona_remote_run on whatever the sandbox answers   *)

\* the lines a sandbox may print: blank ones, diagnostics, JSON documents
OutputLines ==
    {Text(""), Text("  "), Text("log")}
    \cup {Json(PyInt(n)) : n \in 0..MaxVal}
    \cup {Json(Obj(<< <<"gc", PyInt(n)>> >>)) : n \in 0..MaxVal}

\* resp of sandbox.process.code_run: an exit code and the output text
Responses ==
    {[exit_code |-> c, lines |-> ls] :
        c \in {0, 1}, ls \in UNION {[1..n -> OutputLines] : n \in 0..MaxLines}}

\* _daytona_remote_run, lines 57-70, once the sandbox has answered resp (the
\* result depends on resp alone: one call is followed)
RemoteRun(resp) ==
    /\ calls = 0
    /\ calls' = calls + 1
    /\ LET out == RemoteResult(resp)
       IN ret' = [op |-> "remote_run", arg |-> resp, ok |-> ~IsExc(out), val |-> out,
                  found |-> FALSE]
    /\ UNCHANGED <<store, units, jobs, plans, engineVars>>

ParseInit ==
    /\ Fresh
    /\ jobs = <<>>
    /\ apiKey = TRUE

ParseNext == \E resp \in Responses : RemoteRun(resp)

ParseSpec == ParseInit /\ [][ParseNext]_vars

---------------------------------------------------------------------------
(* Running: compile a job and run its plan on either backend (Spec); then  *)
(* once more, with the shard list permuted (PairSpec)                      *)

\* jobs whose shards suit their map operator; the job of the last line has no
\* map operator at all
RunJobs ==
    {JobSpec("job", MapSpec(ToyAgent, None, sh), r, p) :
        sh \in ShardLists(ToyShards), r \in {StageSpec(ToyReducer, None)},
        p \in {StageSpec(ToyProducer, None), StageSpec(GenomicsProducer, None)}}
    \cup {JobSpec("job", MapSpec(None, InlineGc, sh), r, StageSpec(ToyProducer, None)) :
        sh \in ShardLists(GcShards),
        r \in {StageSpec(None, InlineAvg), StageSpec(ToyReducer, None)}}
    \cup {JobSpec("job", MapSpec(None, None, sh), StageSpec(ToyReducer, None),
                  StageSpec(ToyProducer, None)) : sh \in ShardLists({Obj(<< <<"text", PyStr("a")>> >>)})}

\* mrp run: compile_job, then the backend on its plan (cli/main.py, run)
SessionCompile == SessionOver /\ CompileNext

EngineNext ==
    \/ \E w \in 1..MaxWorkers : RunStartLocal(w)
    \/ \E i \in 1..MaxShards : TaskStart(i)
    \/ \E i \in 1..MaxShards : TaskFinish(i)
    \/ \E i \in 1..MaxShards : Collect(i)
    \/ PoolExitRaising
    \/ RunStartCloud
    \/ CloudDispatch
    \/ CloudReturn
    \/ CloudRunRaises
    \/ Reduce
    \/ \E now \in 0..MaxClock : ProduceStart(now)
    \/ ProduceEnd

Next == SessionCompile \/ EngineNext

Init ==
    /\ Fresh
    /\ apiKey \in BOOLEAN
    /\ \E j \in RunJobs : jobs = <<j>>

Spec == Init /\ [][Next]_vars

\* the steps of a call of run_ir once it has begun
RunStep ==
    \/ \E i \in 1..MaxShards : TaskStart(i)
    \/ \E i \in 1..MaxShards : TaskFinish(i)
    \/ \E i \in 1..MaxShards : Collect(i)
    \/ PoolExitRaising
    \/ Reduce
    \/ \E now \in 0..MaxClock : ProduceStart(now)
    \/ ProduceEnd

\* run_ir alone
LocalNext ==
    \/ SessionCompile
    \/ \E w \in 1..MaxWorkers : RunStartLocal(w)
    \/ RunStep

\* threads are scheduled fairly and the calls of operators end: a call of
\* run_ir that can take a step takes one
Fairness == WF_vars(RunStep)

LiveSpec == Init /\ [][LocalNext]_vars /\ Fairness

PairInit ==
    /\ Fresh
    /\ apiKey = TRUE
    /\ \E j \in RunJobs : \E sh \in Reorderings(j.map.shards) :
          jobs = <<j, [j EXCEPT !.map.shards = sh]>>

PairSpec == PairInit /\ [][Next]_vars

---------------------------------------------------------------------------
(* Properties of the engine *)

\* the plan of the run in the frame, its tasks and its operators
RunIR == plans[run.plan].ir
RunSeed == RunIR.manifest.seed
RunReducer == _load(RunIR.manifest.operators.reduce, units).v
RunProducer == _load(RunIR.manifest.operators.produce, units).v

Bijections(n) ==
    {f \in [1..n -> 1..n] : \A i, j \in 1..n : f[i] = f[j] => i = j}

\* list is made of exactly the results of the tasks, one for each
OneResultPerTask(list) ==
    /\ Len(list) = Len(run.task)
    /\ \E f \in Bijections(Len(list)) : \A p \in 1..Len(list) : list[p] = run.task[f[p]].out

\* a local run has returned
LocalReturned == run.pc = "returned" /\ run.backend = "local"

\* C1: the maps list of the record of a local run is strictly ascending by
\* the shard_id of the MapTask each result was computed for, whatever the
\* completion order and the worker count.
C1_MapsAscendingByShardId ==
    LocalReturned =>
        \E f \in Bijections(Len(run.task)) :
            /\ Len(run.sorted) = Len(run.task)
            /\ \A p \in 1..Len(run.sorted) : run.sorted[p] = run.task[f[p]].out
            /\ \A p, q \in 1..Len(run.sorted) :
                  p < q => RunIR.maps[f[p]].shard_id < RunIR.maps[f[q]].shard_id

\* the backend of a finished run, from its record
BackendOf(r) == Lookup(r.record, "backend").v

\* two local runs that returned
LocalPair(a, b) ==
    /\ a \in 1..Len(runs) /\ b \in 1..Len(runs)
    /\ runs[a].ok /\ runs[b].ok
    /\ BackendOf(runs[a]) = "local" /\ BackendOf(runs[b]) = "local"

\* C2: compiling and running one job description twice with run_ir gives two
\* run records of the same digest, whatever the completion orders and
\* whenever the runs happen.
C2_SameJobSameDigest ==
    \A a, b \in 1..Len(runs) :
        (LocalPair(a, b) /\ jobs[runs[a].plan] = jobs[runs[b].plan])
            => runs[a].run_digest = runs[b].run_digest

\* C3: in a run of run_ir the reducer is called at most once, and once when
\* the run returns, only when every map task has completed, on the list of
\* all the results (one per MapTask) as sorted; the producer is called at
\* most once, and once when the run returns, only after the reducer has
\* returned, on what the reducer returned.
C3_Barrier ==
    run.backend = "local" =>
        /\ run.reduceCalls <= 1 /\ run.produceCalls <= 1
        /\ run.reduceCalls = 1 =>
              /\ run.reduceAfter = 1..Len(RunIR.maps)
              /\ OneResultPerTask(run.sorted)
              /\ run.sorted = results_sorted(run.results)
              /\ \A p, q \in 1..Len(run.sorted) :
                    p < q => SortKey(run.sorted[p]) <= SortKey(run.sorted[q])
        /\ run.produceCalls = 1 =>
              /\ run.reduceCalls = 1
              /\ ~IsExc(run.produceArg)
              /\ run.produceArg = ReducerRun(RunReducer, run.sorted, RunSeed)
        /\ run.pc = "returned" => run.reduceCalls = 1 /\ run.produceCalls = 1

\* a local run of several tasks on several workers has returned, its
\* results collected in another order than the tasks were submitted in
C3_Witness ==
    /\ LocalReturned
    /\ Len(run.task) >= 2
    /\ run.workers >= 2
    /\ run.results # [i \in 1..Len(run.task) |-> run.task[i].out]

\* the run in the frame has failed in the map stage, the reducer, the producer
Failed(stage) == run.pc \in {"map_failed", "raised"} /\ run.stage = stage

\* C4: when a map task, the reducer or the producer raises, on either
\* backend, the run fails with that error: no result is taken from a task
\* that raised, no later stage is called, no step is called twice, and the
\* store holds what it held when the run began.
C4_FailStop ==
    /\ \A i \in 1..Len(run.mapCalls) : run.mapCalls[i] <= 1
    /\ run.reduceCalls <= 1 /\ run.produceCalls <= 1
    /\ \A p \in 1..Len(run.results) : ~IsExc(run.results[p])
    /\ (run.backend = "local" /\ run.pc \in {"reduced", "producing", "returned"})
          => \A i \in 1..Len(run.task) : ~IsExc(run.task[i].out)
    /\ Failed("map") =>
          /\ run.reduceCalls = 0 /\ run.produceCalls = 0
          /\ IsExc(run.err)
          /\ run.backend = "local" => \E i \in 1..Len(run.task) : run.task[i].out = run.err
    /\ Failed("reduce") =>
          /\ run.produceCalls = 0
          /\ run.err = ReducerRun(RunReducer, run.sorted, RunSeed)
    /\ Failed("produce") =>
          /\ IsExc(run.err)
          /\ run.err \in ProducerRun(RunProducer, run.produceArg, RunSeed)
    /\ run.pc \in {"map_failed", "raised"} => store = run.store0
    /\ run.pc = "raised" =>
          /\ Len(runs) > 0
          /\ runs[Len(runs)] = [plan |-> run.plan, ok |-> FALSE, err |-> run.err,
                                stage |-> run.stage]

\* a run has failed after a map task raised while another returned
C4_Witness ==
    /\ run.pc = "raised" /\ run.stage = "map"
    /\ run.backend = "local"
    /\ \E i, j \in 1..Len(run.task) :
          IsExc(run.task[i].out) /\ run.task[j].st = "done" /\ ~IsExc(run.task[j].out)

\* C6: the runs of a job and of the same job with its shard list permuted
\* have the same reduce output and the same produce output.
C6_PermutedShardsSameOutputs ==
    \A a, b \in 1..Len(runs) :
        (LocalPair(a, b) /\ runs[a].plan = 1 /\ runs[b].plan = 2)
            => /\ Lookup(runs[a].record, "reduce") = Lookup(runs[b].record, "reduce")
               /\ Lookup(runs[a].record, "produce") = Lookup(runs[b].record, "produce")


\* a run of the local backend and a run of the remote-sandbox backend that
\* both returned, on plans that are the same
BackendPair(a, b) ==
    /\ a \in 1..Len(runs) /\ b \in 1..Len(runs)
    /\ runs[a].ok /\ runs[b].ok
    /\ BackendOf(runs[a]) = "local" /\ BackendOf(runs[b]) = "cloud_sandbox"
    /\ plans[runs[a].plan] = plans[runs[b].plan]

\* C11: on the same plan the local and the remote-sandbox backend give run
\* records with the same maps list, the same reduce section and the same
\* produce section.
C11_BackendsAgree ==
    \A a, b \in 1..Len(runs) :
        BackendPair(a, b) =>
            /\ Lookup(runs[a].record, "maps") = Lookup(runs[b].record, "maps")
            /\ Lookup(runs[a].record, "reduce") = Lookup(runs[b].record, "reduce")
            /\ Lookup(runs[a].record, "produce") = Lookup(runs[b].record, "produce")

\* C13: the working directory is the output directory of the run while the
\* producer is running and at no other time; when run_ir or run_ir_cloud has
\* returned or raised, it is the directory the call started in.
C13_CwdRestored ==
    /\ [](run.pc = "producing" => (cwd = run.output_dir /\ run.cwd = ProjectRoot))
    /\ [](run.pc # "producing" => cwd = ProjectRoot)
    /\ [][(run.pc = "producing" /\ run'.pc # "producing") => cwd' = run.cwd]_vars

\* a producer raised in the output directory of its run, and the working
\* directory is back where the call started
C13_Witness ==
    /\ run.pc = "raised" /\ run.stage = "produce"
    /\ run.output_dir \in outdirs
    /\ run.output_dir # ProjectRoot
    /\ cwd = ProjectRoot

\* the map tasks of the run that a worker has started
Started == {i \in 1..Len(run.task) : run.task[i].st # "queued"}

\* C14: in the local backend no two map tasks of a run can write to the same
\* object: each has its own parameters and its own operator state.
C14_NoSharedMutableState ==
    run.backend = "local" =>
        \A i, j \in Started : i # j => Writable(run, i) \cap Writable(run, j) = {}

\* C15: every run of run_ir has an output location of its own: the output
\* directories recorded by two runs are distinct, so none existed before
\* its run made it.
C15_FreshOutputDir ==
    \A a, b \in 1..Len(runs) :
        (LocalPair(a, b) /\ a # b)
            => Lookup(runs[a].record, "output_dir") # Lookup(runs[b].record, "output_dir")

\* the map tasks run_ir_cloud has dispatched
Dispatched == {i \in 1..Len(run.mapCalls) : run.mapCalls[i] > 0}

\* C16: the remote-sandbox backend dispatches the map tasks one at a time in
\* plan order, each in a sandbox of its own that is deleted before the next
\* dispatch on every path: at most one sandbox exists, it is the sandbox of
\* the task in flight, and none exists once run_ir_cloud returned or raised.
C16_OneSandboxAtATime ==
    /\ Cardinality(sandboxes) <= 1
    /\ run.pc = "sandboxed" => (run.backend = "cloud_sandbox" /\ sandboxes = {SandboxId})
    /\ run.pc # "sandboxed" => sandboxes = {}
    /\ run.backend = "cloud_sandbox" =>
          /\ \A i \in Dispatched : run.mapCalls[i] = 1 /\ \A j \in 1..(i - 1) : j \in Dispatched
          /\ Len(run.results) = run.next
          /\ Dispatched \in {1..run.next, 1..(run.next + 1)}
          /\ run.pc = "sandboxed" => Dispatched = 1..(run.next + 1)

\* run_ir_cloud raised on its second map task, after the first had returned
\* its result, and no sandbox is left
C16_Witness ==
    /\ run.backend = "cloud_sandbox"
    /\ run.pc = "raised" /\ run.stage = "map"
    /\ run.next >= 1
    /\ Dispatched = 1..(run.next + 1)
    /\ sandboxes = {}

\* C17: run_ir_cloud checks the credential before anything else: without it
\* the run fails with a configuration error, and no map task was
\* dispatched, no sandbox, output directory or run record was made; with it
\* the run never fails so.
C17_CredentialFirst ==
    run.backend = "cloud_sandbox" =>
        /\ ~apiKey =>
              /\ run.pc = "raised" /\ run.stage = "config"
              /\ run.err = Exc("RuntimeError")
              /\ runs[Len(runs)] = [plan |-> run.plan, ok |-> FALSE, err |-> run.err,
                                    stage |-> "config"]
              /\ Dispatched = {} /\ run.next = 0 /\ run.results = <<>>
              /\ sandboxes = {}
              /\ run.reduceCalls = 0 /\ run.produceCalls = 0
              /\ run.output_dir = None /\ outdirs = {}
              /\ store = run.store0
        /\ apiKey => run.stage # "config"

\* run_ir_cloud was called without the credential on a plan with map tasks
C17_Witness ==
    /\ run.backend = "cloud_sandbox"
    /\ ~apiKey
    /\ run.pc = "raised"
    /\ Len(RunIR.maps) >= 2

\* the stage calls of the run, as <<stage, task>>
StageCalls ==
    {<<"map", i>> : i \in {j \in 1..Len(run.mapCalls) : run.mapCalls[j] > 0}}
    \cup (IF run.reduceCalls > 0 THEN {<<"reduce", 0>>} ELSE {})
    \cup (IF run.produceCalls > 0 THEN {<<"produce", 0>>} ELSE {})

\* C19: every map call, the reduce call and the produce call of a run, on
\* either backend, is given the same seed, the one compile_job wrote into
\* the manifest of the plan.
C19_SeedUnchanged ==
    run.plan > 0 =>
        /\ {<<x.stage, x.task>> : x \in run.seedArgs} = StageCalls
        /\ \A x \in run.seedArgs :
              /\ x.seed = plans[run.plan].manifest.seed
              /\ x.seed = derive_seed(jobs[run.plan])
        /\ run.pc = "returned" => Cardinality(run.seedArgs) = Len(RunIR.maps) + 2

\* a run of several map tasks, whose shards were not given in sorted order,
\* has returned
C19_Witness ==
    /\ run.pc = "returned"
    /\ Len(RunIR.maps) >= 2
    /\ RunIR.maps[1].params # jobs[run.plan].map.shards[1]
    /\ Cardinality(run.seedArgs) = Len(RunIR.maps) + 2

\* C22: a run of run_ir that has begun ends, by returning its digest and
\* record or by raising; and when a map task raised, the run has raised only
\* once every submitted map task has finished.
C22_RunTerminates ==
    /\ (run.backend = "local") ~> (run.pc \in {"returned", "raised"})
    /\ [](run.pc = "returned" =>
            /\ runs[Len(runs)].ok
            /\ runs[Len(runs)].run_digest = digest_json(runs[Len(runs)].record))
    /\ []((run.backend = "local" /\ run.pc = "raised" /\ run.stage = "map") =>
            \A i \in 1..Len(run.task) : run.task[i].st = "done")

\* a run on one worker raised for its first map task, and the tasks still
\* queued then have run before the error left the call
C22_Witness ==
    /\ run.backend = "local" /\ run.workers = 1
    /\ run.pc = "raised" /\ run.stage = "map"
    /\ Len(run.task) >= 2
    /\ run.collected = {}
    /\ \A i \in 1..Len(run.task) : run.task[i].st = "done"

---------------------------------------------------------------------------
(* Properties of the sandbox protocol *)

\* the positions of the lines of a response that parse as JSON
Parsable(resp) == {i \in 1..Len(resp.lines) : resp.lines[i].t = "json"}

\* C18: _daytona_remote_run returns the value of the last line of the output
\* that parses, whatever comes before it and whatever blank or unparsable
\* lines come after it; it fails with a remote-execution error when the exit
\* code is not zero, or when no line parses.
C18_LastParsableLine ==
    ret.op = "remote_run" =>
        LET resp == ret.arg
        IN IF resp.exit_code # 0 \/ Parsable(resp) = {}
           THEN ~ret.ok /\ ret.val = Exc("RuntimeError")
           ELSE /\ ret.ok
                /\ \E i \in Parsable(resp) :
                      /\ \A j \in Parsable(resp) : j <= i
                      /\ ret.val = resp.lines[i].v

\* the sandbox printed a JSON line, then another one, then a line that does
\* not parse, and the second was returned
C18_Witness ==
    /\ ret.op = "remote_run" /\ ret.ok
    /\ Len(ret.arg.lines) = 3
    /\ Parsable(ret.arg) = {1, 2}
    /\ ret.arg.lines[1] # ret.arg.lines[2]
    /\ ret.val = ret.arg.lines[2].v

---------------------------------------------------------------------------
(* Properties of the artifact store *)

\* C7: the artifact store is write-once: put_json writes a blob only when
\* none exists at the digest, a repeated put_json returns the same digest and
\* writes nothing, and no blob is ever overwritten or deleted.
C7_WriteOnce ==
    /\ [](\A d \in DOMAIN store : store[d].writes = 1)
    /\ [](ret.op = "put" =>
            /\ ret.val = digest_json(ret.arg)
            /\ Exists(store, ret.val)
            /\ store[ret.val].data = dumps(ret.arg))
    /\ [][\A d \in DOMAIN store : Exists(store', d) /\ store'[d] = store[d]]_vars

\* put_json was called on a document whose blob was already there
C7_Witness == ret.op = "put" /\ ret.found /\ calls = MaxCalls

\* C8: get_json(put_json(x)) equals x, whatever was put after x; get_json of a
\* digest that was never put fails with a not-found error and changes nothing.
C8_RoundTrip ==
    /\ [](\A x \in Docs : Exists(store, digest_json(x))
            => PyEq(loads(store[digest_json(x)].data), x))
    /\ [](ret.op = "get" =>
            /\ ret.ok = Exists(store, ret.arg)
            /\ ret.ok => \A x \in Docs : digest_json(x) = ret.arg => PyEq(ret.val, x)
            /\ ~ret.ok => ret.val = PyStr("FileNotFoundError"))
    /\ [][ret'.op = "get" => store' = store]_vars

\* get_json returned a document that was put with its keys in another order,
\* with the blob of another document beside it
C8_Witness ==
    /\ ret.op = "get" /\ ret.ok
    /\ \E x \in Docs : digest_json(x) = ret.arg /\ x # ret.val
    /\ Cardinality(DOMAIN store) >= 2

---------------------------------------------------------------------------
(* Properties of the compiler *)

Compiled(k) == k <= Len(plans) /\ plans[k].ok

\* the shards of a list are pairwise distinct in content
DistinctShards(shards) ==
    \A i, j \in 1..Len(shards) : PyEq(shards[i], shards[j]) => i = j

\* the MapTasks of plan k
MapsOf(k) == plans[k].ir.maps

\* C5: when the shard lists of two jobs are permutations of each other, with
\* shards pairwise distinct in content, every shard has the same shard_id in
\* both plans.
C5_ShardIdByContent ==
    (Compiled(1) /\ Compiled(2) /\ DistinctShards(jobs[1].map.shards)) =>
        \A i \in 1..Len(MapsOf(1)) : \A j \in 1..Len(MapsOf(2)) :
            PyEq(MapsOf(1)[i].params, MapsOf(2)[j].params)
                => MapsOf(1)[i].shard_id = MapsOf(2)[j].shard_id

\* two plans of MaxShards distinct shards given in different orders
C5_Witness ==
    /\ Compiled(1) /\ Compiled(2)
    /\ Len(jobs[1].map.shards) >= 2
    /\ DistinctShards(jobs[1].map.shards)
    /\ jobs[1].map.shards # jobs[2].map.shards
    /\ MapsOf(1)[1].params # jobs[1].map.shards[1]

\* the <<generated, resolved reference>> of every stage of plan k that has
\* inline source
InlineStages(k) ==
    IF ~Compiled(k) THEN {}
    ELSE (IF HasGenerated(jobs[k].map.generated)
          THEN {<<jobs[k].map.generated, MapsOf(k)[i].operator>> : i \in 1..Len(MapsOf(k))}
          ELSE {})
         \cup (IF HasGenerated(jobs[k].reduce.generated)
               THEN {<<jobs[k].reduce.generated, plans[k].ir.reduce.operator>>}
               ELSE {})
         \cup (IF HasGenerated(jobs[k].produce.generated)
               THEN {<<jobs[k].produce.generated, plans[k].ir.produce.operator>>}
               ELSE {})

AllInlineStages == UNION {InlineStages(k) : k \in 1..Len(plans)}

\* every unit is named by the digest of its bytes and was written once
UnitsWrittenOnce ==
    \A d \in DOMAIN units : d = blake3(units[d].data) /\ units[d].writes = 1

\* every inline stage of a compiled plan has its unit, holding its source
InlineStagesHaveUnit ==
    \A x \in AllInlineStages :
        /\ Exists(units, code_digest(x[1]))
        /\ units[code_digest(x[1])].data = Bytes(PyStr(x[1].code))

\* C9 as stated: byte-identical inline source gets the same resolved
\* reference each time (with one unit, written once).
C9_SameSourceSameRef ==
    /\ \A x, y \in AllInlineStages : x[1].code = y[1].code => x[2] = y[2]
    /\ UnitsWrittenOnce
    /\ InlineStagesHaveUnit

\* C9, amended: byte-identical inline source with the same entrypoint class
\* gets the same resolved reference each time; whatever the entrypoints, the
\* source has one unit, named by the digest of its bytes and written once.
C9_SameSourceAndClassSameRef ==
    /\ \A x, y \in AllInlineStages :
          (x[1].code = y[1].code /\ x[1].entrypoint.v.cls = y[1].entrypoint.v.cls)
              => x[2] = y[2]
    /\ UnitsWrittenOnce
    /\ InlineStagesHaveUnit

\* two jobs were compiled whose stages share inline source, several times over
C9_Witness ==
    /\ Compiled(1) /\ Compiled(2)
    /\ Len(MapsOf(1)) >= 2
    /\ HasGenerated(jobs[1].map.generated)
    /\ HasGenerated(jobs[1].reduce.generated)
    /\ jobs[1].map.generated.code = jobs[1].reduce.generated.code
    /\ Cardinality(DOMAIN units) = 1

\* a stage with neither an operator reference nor generated source
LacksOperator(stage) == stage.operator = None /\ ~HasGenerated(stage.generated)

\* C10: compile_job fails whenever a stage lacks both an operator reference
\* and generated source, for every shard list.
C10_MissingStageFails ==
    \A k \in 1..Len(plans) :
        (LacksOperator(jobs[k].map) \/ LacksOperator(jobs[k].reduce)
            \/ LacksOperator(jobs[k].produce)) => ~plans[k].ok

\* the seed compile_job wrote into the manifest of plan k
SeedOf(k) == plans[k].manifest.seed

\* the job with its inline operators taken away: what it declares
Declared(job) ==
    [job EXCEPT !.map.generated = None, !.reduce.generated = None,
                !.produce.generated = None]

\* the shard list as normalize_json encodes it: in the order given, the keys
\* of each shard sorted
EncodedShards(job) == [i \in 1..Len(job.map.shards) |-> Canonical(job.map.shards[i])]

\* C12: the seed is derived from the version, the job_id, the shard list in
\* the caller's order and the declared operator identifiers only: it is the
\* seed of the job without its inline operators, whatever was materialized
\* before, and two jobs that differ in shard order alone have the same seed
\* exactly when their shard lists encode alike.
C12_SeedFromDeclared ==
    /\ \A k \in 1..Len(plans) :
          Compiled(k) => /\ SeedOf(k) = derive_seed(Declared(jobs[k]))
                         /\ plans[k].ir.manifest.seed = SeedOf(k)
    /\ (Compiled(1) /\ Compiled(2)) =>
          (SeedOf(1) = SeedOf(2) <=> EncodedShards(jobs[1]) = EncodedShards(jobs[2]))

\* a job whose inline map operator was materialized by the first compilation
\* was compiled again, and got its seed again
C12_Witness ==
    /\ Compiled(1) /\ Compiled(2)
    /\ jobs[1] = jobs[2]
    /\ HasGenerated(jobs[1].map.generated)
    /\ Len(jobs[1].map.shards) >= 2
    /\ MapsOf(1)[1].params # jobs[1].map.shards[1]
    /\ DOMAIN units # {}
    /\ SeedOf(1) = SeedOf(2)

\* the digest compile_job sorts a shard by, as a number in the order of the
\* hexdigest strings
ShardDigest(shard) == HexVal(blake3(normalize_json(shard)))

\* C20: a plan has one MapTask for each shard of the job: shard_ids 0..n-1 in
\* list order, the params being the shards of the job, each as often as it
\* was given, in non-decreasing order of their content digests.
C20_MapTasksNumbered ==
    \A k \in 1..Len(plans) :
        Compiled(k) =>
            LET shards == jobs[k].map.shards
                n == Len(shards)
            IN /\ Len(MapsOf(k)) = n
               /\ \A i \in 1..n : MapsOf(k)[i].shard_id = i - 1
               /\ \E f \in Bijections(n) : \A i \in 1..n : MapsOf(k)[i].params = shards[f[i]]
               /\ \A i \in 1..(n - 1) :
                     ShardDigest(MapsOf(k)[i].params) <= ShardDigest(MapsOf(k)[i + 1].params)

\* a job was compiled whose last shard has the least digest
C20_Witness ==
    /\ Compiled(1)
    /\ Len(MapsOf(1)) >= 2
    /\ MapsOf(1)[1].params = jobs[1].map.shards[Len(jobs[1].map.shards)]
    /\ MapsOf(1)[1].params # jobs[1].map.shards[1]
    /\ ShardDigest(MapsOf(1)[1].params) < ShardDigest(MapsOf(1)[2].params)

\* the reference a stage resolves to: the materialized one when the stage has
\* inline source, else the declared one
ResolvedRef(stage) ==
    IF HasGenerated(stage.generated) THEN resolved(stage.generated) ELSE stage.operator

\* C21: in every plan the manifest names, for each stage, the resolved
\* reference of the stage: it is the operator of the ReduceTask, of the
\* ProduceTask and of every MapTask, and it is never absent, whatever the
\* shard list.
C21_ManifestHoldsResolvedRefs ==
    \A k \in 1..Len(plans) :
        Compiled(k) =>
            LET ops == plans[k].ir.manifest.operators
            IN /\ ops.map = ResolvedRef(jobs[k].map)
               /\ ops.reduce = ResolvedRef(jobs[k].reduce)
               /\ ops.produce = ResolvedRef(jobs[k].produce)
               /\ ops.map # None /\ ops.reduce # None /\ ops.produce # None
               /\ \A i \in 1..Len(MapsOf(k)) : MapsOf(k)[i].operator = ops.map
               /\ plans[k].ir.reduce.operator = ops.reduce
               /\ plans[k].ir.produce.operator = ops.produce

====
